---- MODULE Spec2Model ----
(***************************************************************************)
(* Model of the modality wrapper (wall_x/data/modality_wrapper.py) and of  *)
(* the statistics run that consumes it (scripts/compute_norm_stats.py).    *)
(*                                                                         *)
(* A tensor is a record [ndim, rows]: rows is the sequence of last-axis    *)
(* rows, so a [D] vector is one row with ndim = 1, an [H, D] window is H   *)
(* rows with ndim = 2 and a 0-d scalar is one row of one element with      *)
(* ndim = 0.                                                               *)
(***************************************************************************)
EXTENDS Integers, Sequences, FiniteSets, TLC

VARIABLES
    pc,             \* position of the script / of the dataset object
    modality,       \* json.load(modality.json): [state, action] blocks
    state_key,      \* self.state_key
    action_key,     \* self.action_key
    action_horizon, \* self.action_horizon
    episodes,       \* self.episode_data_index as a sequence of [from, to]
    use_delta,      \* whether delta_timestamps was built for the action columns
    delta_keys,     \* the keys of delta_timestamps handed to LeRobotDataset
    batch_size,     \* args.batch_size
    state_specs,    \* self.state_specs
    action_specs,   \* self.action_specs
    call,           \* the last __getitem__ call: its inputs and its outcome
    next_idx,       \* position of the DataLoader in the dataset
    batch,          \* the batch the loop body is working on
    todo,           \* keys of the current batch still to be fed to update
    count,          \* RunningStats count per unified key
    fed,            \* how many times each dataset index was fed to update
    log,            \* the calls made on the statistics so far, in order
    win             \* the window computation: [from, to, idx, H, indices]

vars == <<pc, modality, state_key, action_key, action_horizon, episodes,
          use_delta, delta_keys, batch_size, state_specs, action_specs, call,
          next_idx, batch, todo, count, fed, log, win>>

confVars == <<modality, state_key, action_key, action_horizon, episodes,
              use_delta, batch_size>>

runVars == <<next_idx, batch, todo, count, fed, log>>

---------------------------------------------------------------------------
\* Bounds of the model

MaxH == 2
MaxFrames == 4
MaxEpisodes == 2
MaxSpecs == 2
MaxBatch == 3
MaxIndex == 5

---------------------------------------------------------------------------
\* Arithmetic helpers

Min(a, b) == IF a < b THEN a ELSE b

Max(a, b) == IF a > b THEN a ELSE b

RECURSIVE SumSeq(_)
SumSeq(s) == IF s = <<>> THEN 0 ELSE Head(s) + SumSeq(Tail(s))

RECURSIVE Flatten(_)
Flatten(ss) == IF ss = <<>> THEN <<>> ELSE Head(ss) \o Flatten(Tail(ss))

---------------------------------------------------------------------------
\* Tensors and outcomes

Tensor(n, rs) == [ndim |-> n, rows |-> rs]

NoTensor == Tensor(0, <<>>)

Ok(v) == [ok |-> TRUE, err |-> "none", key |-> "", val |-> v]

Raise(e, k, v) == [ok |-> FALSE, err |-> e, key |-> k, val |-> v]

NoItem == [k \in {} |-> NoTensor]

---------------------------------------------------------------------------
\* The window of _compose_action

\* the clamp without its lower bound
ClampNoLower(idx, t, ep_start, ep_end) == Min(idx + t, ep_end - 1)

\* the clamp with the half-open end taken as the last frame
ClampToEnd(idx, t, ep_start, ep_end) == Min(Max(idx + t, ep_start), ep_end)

\* min(max(idx + t, ep_start), ep_end - 1)
Clamp(idx, t, ep_start, ep_end) == Min(Max(idx + t, ep_start), ep_end - 1)

\* the window cut at the episode end instead of padded
ClampedIndicesCut(idx, H, ep_start, ep_end) ==
    [i \in 1..Max(0, Min(H, ep_end - idx)) |-> Max(idx + i - 1, ep_start)]

\* indices = [min(max(idx + t, ep_start), ep_end - 1) for t in range(H)]
ClampedIndices(idx, H, ep_start, ep_end) ==
    [i \in 1..H |-> Clamp(idx, i - 1, ep_start, ep_end)]

---------------------------------------------------------------------------
\* The frame store (self.hf_dataset): every column holds one vector per frame

Columns == {"obs.pos", "obs.vel", "act.arm", "act.grip"}

ColId(col) == CASE col = "obs.pos" -> 1 [] col = "obs.vel" -> 2
                [] col = "act.arm" -> 3 [] OTHER -> 4

ColDim(col) == CASE col = "obs.pos" -> 3 [] col = "obs.vel" -> 2
                 [] col = "act.arm" -> 3 [] OTHER -> 1

\* hf_dataset[i][col]: the values differ from frame to frame and from column
\* to column, so that a row taken from the wrong frame shows
Raw(col, i) == [j \in 1..ColDim(col) |-> 100 * ColId(col) + 10 * i + j]

NumFrames(eps) == IF eps = <<>> THEN 0 ELSE eps[Len(eps)].to

\* the episode_index column of frame idx
EpisodeOf(eps, idx) ==
    CHOOSE e \in 1..Len(eps) : eps[e].from <= idx /\ idx < eps[e].to

---------------------------------------------------------------------------
\* _parse_vector_specs

\* one entry: original_key is read with cfg["original_key"], start and end
\* with cfg.get(.., 0) and cfg.get(.., -1); nothing else is looked at
ParseEntry(cfg) ==
    [original_key |-> cfg.original_key,
     start |-> IF cfg.has_start THEN cfg.start ELSE 0,
     end |-> IF cfg.has_end THEN cfg.end ELSE -1]

\* the specs of a block, in the block's own order; KeyError on an entry
\* without "original_key"
_parse_vector_specs(block) ==
    IF \E k \in 1..Len(block) : ~block[k].has_key
    THEN Raise("KeyError", "original_key", <<>>)
    ELSE Ok([k \in 1..Len(block) |-> ParseEntry(block[k])])

---------------------------------------------------------------------------
\* _slice_last_dim

\* where Python puts a slice bound on an axis of length D
NormIndex(i, D) == IF i < 0 THEN Max(i + D, 0) ELSE Min(i, D)

\* row[start:] if end == -1 else row[start:end]
SliceRow(row, start, end) ==
    LET D == Len(row)
        lo == NormIndex(start, D)
        hi == IF end = -1 THEN D ELSE NormIndex(end, D)
    IN IF hi > lo THEN SubSeq(row, lo + 1, hi) ELSE <<>>

_slice_last_dim(x, start, end) ==
    Tensor(x.ndim, [r \in 1..Len(x.rows) |-> SliceRow(x.rows[r], start, end)])

\* the parts concatenated last to first
CatReversed(parts) ==
    IF Len(parts) = 0 THEN Raise("IndexError", "", NoTensor)
    ELSE Ok(Tensor(parts[1].ndim,
                   [r \in 1..Len(parts[1].rows) |->
                       Flatten([k \in 1..Len(parts) |->
                                   parts[Len(parts) + 1 - k].rows[r]])]))

\* torch.cat(parts, dim=-1) if len(parts) > 1 else parts[0]
CatOrSingle(parts) ==
    IF Len(parts) = 0 THEN Raise("IndexError", "", NoTensor)
    ELSE IF Len(parts) = 1 THEN Ok(parts[1])
    ELSE IF \E k \in 1..Len(parts) :
                \/ parts[k].ndim # parts[1].ndim
                \/ Len(parts[k].rows) # Len(parts[1].rows)
         THEN Raise("RuntimeError", "", NoTensor)
         ELSE Ok(Tensor(parts[1].ndim,
                        [r \in 1..Len(parts[1].rows) |->
                            Flatten([k \in 1..Len(parts) |-> parts[k].rows[r]])]))

\* the first spec, in block order, whose column cannot be found
FirstMissing(specs, avail) ==
    LET bad == {k \in 1..Len(specs) : specs[k].original_key \notin avail}
    IN IF bad = {} THEN 0 ELSE CHOOSE k \in bad : \A m \in bad : k <= m

---------------------------------------------------------------------------
\* _compose_state

\* a composition that passes over the columns it cannot find
ComposeStateSkipMissing(specs, item) ==
    CatOrSingle(SelectSeq([k \in 1..Len(specs) |->
                    IF specs[k].original_key \in DOMAIN item
                    THEN _slice_last_dim(item[specs[k].original_key],
                                         specs[k].start, specs[k].end)
                    ELSE NoTensor],
                LAMBDA t : t # NoTensor))

_compose_state(specs, item) ==
    LET miss == FirstMissing(specs, DOMAIN item)
    IN IF miss # 0
       THEN Raise("KeyError", specs[miss].original_key, NoTensor)
       ELSE CatOrSingle([k \in 1..Len(specs) |->
                _slice_last_dim(item[specs[k].original_key],
                                specs[k].start, specs[k].end)])

---------------------------------------------------------------------------
\* LeRobotDataset.__getitem__, the item the wrapper starts from

\* the frame LeRobotDataset takes for offset t of a delta_timestamps window
QueryIndex(idx, t, ep_start, ep_end) == Max(ep_start, Min(ep_end - 1, idx + t))

\* every column of the frame store, the windowed ones as [H, D], plus
\* episode_index; a delta_timestamps key that is no column cannot be queried
SuperGetItem(eps, dkeys, H, idx) ==
    IF dkeys \ Columns # {}
    THEN Raise("KeyError", CHOOSE k \in dkeys : k \notin Columns, NoItem)
    ELSE LET e == EpisodeOf(eps, idx)
         IN Ok([k \in Columns \cup {"episode_index"} |->
                  IF k = "episode_index" THEN Tensor(0, << <<e>> >>)
                  ELSE IF k \in dkeys
                       THEN Tensor(2, [i \in 1..H |->
                                Raw(k, QueryIndex(idx, i - 1, eps[e].from, eps[e].to))])
                       ELSE Tensor(1, << Raw(k, idx) >>)])

---------------------------------------------------------------------------
\* _compose_action

\* orig in item and isinstance(item[orig], torch.Tensor) and item[orig].ndim >= 2
UsesFastPath(item, orig) == orig \in DOMAIN item /\ item[orig].ndim >= 2

\* torch.stack(self.hf_dataset.select(indices)[orig], dim=0)
Gather(orig, indices) == Tensor(2, [i \in 1..Len(indices) |-> Raw(orig, indices[i])])

\* the window of the episode item["episode_index"] names
ActionIndices(item, idx, H, eps) ==
    LET ep_idx == item["episode_index"].rows[1][1]
    IN ClampedIndices(idx, H, eps[ep_idx].from, eps[ep_idx].to)

_compose_action(specs, item, idx, H, eps) ==
    LET indices == ActionIndices(item, idx, H, eps)
        fast(k) == UsesFastPath(item, specs[k].original_key)
        bad == {k \in 1..Len(specs) :
                   ~fast(k) /\ specs[k].original_key \notin Columns}
        x(k) == IF fast(k) THEN item[specs[k].original_key]
                ELSE Gather(specs[k].original_key, indices)
    IN IF bad # {}
       THEN Raise("KeyError",
                  specs[CHOOSE k \in bad : \A m \in bad : k <= m].original_key,
                  NoTensor)
       ELSE CatOrSingle([k \in 1..Len(specs) |->
                _slice_last_dim(x(k), specs[k].start, specs[k].end)])

---------------------------------------------------------------------------
\* __getitem__

\* item[key] = value
SetKey(item, key, value) ==
    [k \in DOMAIN item \cup {key} |-> IF k = key THEN value ELSE item[k]]

NotReached == Raise("not reached", "", NoTensor)

\* the whole call: what super().__getitem__ gave, what the two compositions
\* gave, and the record returned (or the exception that left the call)
GetItemCall(sspecs, aspecs, skey, akey, H, eps, dkeys, idx) ==
    LET sup == SuperGetItem(eps, dkeys, H, idx)
        st == IF sup.ok THEN _compose_state(sspecs, sup.val) ELSE NotReached
        item1 == IF st.ok THEN SetKey(sup.val, skey, st.val) ELSE NoItem
        ac == IF st.ok THEN _compose_action(aspecs, item1, idx, H, eps)
              ELSE NotReached
        ret == IF ~sup.ok THEN sup
               ELSE IF ~st.ok THEN Raise(st.err, st.key, NoItem)
               ELSE IF ~ac.ok THEN Raise(ac.err, ac.key, NoItem)
               ELSE Ok(SetKey(item1, akey, ac.val))
    IN [made |-> TRUE, idx |-> idx, super |-> sup, state |-> st,
        item1 |-> item1, action |-> ac, ret |-> ret]

NoCall == [made |-> FALSE, idx |-> 0, super |-> Raise("not reached", "", NoItem),
           state |-> NotReached, item1 |-> NoItem, action |-> NotReached,
           ret |-> Raise("not reached", "", NoItem)]

---------------------------------------------------------------------------
\* The inputs: modality descriptors, episode tables, unified keys

Cfg(key, start, end) ==
    [has_key |-> TRUE, original_key |-> key, has_start |-> TRUE,
     start |-> start, has_end |-> TRUE, end |-> end]

\* {"original_key": key}
CfgKeyOnly(key) ==
    [has_key |-> TRUE, original_key |-> key, has_start |-> FALSE,
     start |-> 0, has_end |-> FALSE, end |-> 0]

\* {"start": 0, "end": 2}
CfgNoKey ==
    [has_key |-> FALSE, original_key |-> "", has_start |-> TRUE,
     start |-> 0, has_end |-> TRUE, end |-> 2]

\* (start, end) of an entry: to the end, a plain range, an end past the
\* column's width, an end not after start, and negative bounds
Ranges == {<<0, -1>>, <<0, 2>>, <<1, 4>>, <<1, 0>>, <<-1, 2>>, <<-1, -1>>, <<0, -2>>}

Entries(keys) ==
    {Cfg(k, r[1], r[2]) : k \in keys, r \in Ranges}
        \cup {CfgKeyOnly(k) : k \in keys} \cup {CfgNoKey}

Blocks(entries) == UNION {[1..n -> entries] : n \in 0..MaxSpecs}

StateColumns == {"obs.pos", "obs.vel", ""}

ActionColumns == {"act.arm", "act.grip", "act.none"}

PlainState == << Cfg("obs.pos", 0, 3), Cfg("obs.vel", 0, -1) >>

PlainAction == << Cfg("act.arm", 0, 2), CfgKeyOnly("act.grip") >>

\* state_key and action_key: fresh names, and names the dataset already has
UnifiedKeys == {"state", "action", "obs.pos", "act.arm"}

RECURSIVE TableOf(_, _)
TableOf(lens, from) ==
    IF lens = <<>> THEN <<>>
    ELSE << [from |-> from, to |-> from + Head(lens)] >>
            \o TableOf(Tail(lens), from + Head(lens))

\* episode_data_index: consecutive non-empty episodes starting at frame 0
Tables ==
    {TableOf(lens, 0) :
        lens \in {l \in UNION {[1..n -> 1..MaxFrames] : n \in 1..MaxEpisodes} :
                     SumSeq(l) <= MaxFrames}}

OneTable == << [from |-> 0, to |-> 2], [from |-> 2, to |-> 3] >>

---------------------------------------------------------------------------
\* Initial states

IdleRun ==
    /\ next_idx = 0
    /\ batch = [idxs |-> <<>>, samples |-> [k \in {"state", "action"} |-> 0]]
    /\ todo = <<>>
    /\ count = [k \in {"state", "action"} |-> 0]
    /\ fed = [k \in {"state", "action"} |->
                [i \in 0..(NumFrames(episodes) - 1) |-> 0]]
    /\ log = <<>>

IdleWin == win = [from |-> 0, to |-> 1, idx |-> 0, H |-> 1, indices |-> <<>>]

NotLoaded ==
    /\ pc = "start"
    /\ delta_keys = {}
    /\ state_specs = <<>>
    /\ action_specs = <<>>
    /\ call = NoCall

\* one __getitem__ at a time on a freshly built dataset; each family of
\* initial states varies one part of the configuration. use_delta is TRUE
\* for a dataset built by load_lerobot_dataset and FALSE for one built
\* without delta_timestamps, whose action columns are gathered by the
\* wrapper. The state columns and the action columns are different columns.
InitItem ==
    /\ batch_size = 1
    /\ \/ /\ modality \in [state : Blocks(Entries(StateColumns)),
                           action : {PlainAction}]
          /\ state_key = "state" /\ action_key = "action"
          /\ action_horizon = MaxH
          /\ episodes = OneTable
          /\ use_delta = TRUE
       \/ /\ modality \in [state : {PlainState},
                           action : Blocks(Entries(ActionColumns))]
          /\ state_key = "state" /\ action_key = "action"
          /\ action_horizon = MaxH
          /\ episodes = OneTable
          /\ use_delta \in BOOLEAN
       \/ /\ modality \in [state : {PlainState},
                           action : {PlainAction, << Cfg("act.arm", 1, -1) >>}]
          /\ state_key = "state" /\ action_key = "action"
          /\ action_horizon \in 1..MaxH
          /\ episodes \in Tables
          /\ use_delta \in BOOLEAN
       \/ /\ modality \in [state : {PlainState, << >>},
                           action : {PlainAction, << >>}]
          /\ state_key \in UnifiedKeys /\ action_key \in UnifiedKeys
          /\ action_horizon = MaxH
          /\ episodes = OneTable
          /\ use_delta \in BOOLEAN
    /\ NotLoaded
    /\ IdleRun
    /\ IdleWin

---------------------------------------------------------------------------
\* load_lerobot_dataset: build_delta_timestamps, then the dataset's __init__

\* {k: offsets for k in action_orig_keys}, offsets of length action_horizon
build_delta_timestamps(mod) ==
    IF \E k \in 1..Len(mod.action) : ~mod.action[k].has_key
    THEN Raise("KeyError", "original_key", {})
    ELSE Ok({mod.action[k].original_key : k \in 1..Len(mod.action)})

LoadDataset ==
    /\ pc = "start"
    /\ LET dk == IF use_delta THEN build_delta_timestamps(modality) ELSE Ok({})
           sp == _parse_vector_specs(modality.state)
           ap == _parse_vector_specs(modality.action)
       IN IF dk.ok /\ sp.ok /\ ap.ok
          THEN /\ pc' = "ready"
               /\ delta_keys' = dk.val
               /\ state_specs' = sp.val
               /\ action_specs' = ap.val
          ELSE /\ pc' = "load_failed"
               /\ UNCHANGED <<delta_keys, state_specs, action_specs>>
    /\ UNCHANGED <<confVars, call, runVars, win>>

\* dataset[idx]
GetItem ==
    /\ pc = "ready"
    /\ \E idx \in 0..(NumFrames(episodes) - 1) :
          call' = GetItemCall(state_specs, action_specs, state_key, action_key,
                              action_horizon, episodes, delta_keys, idx)
    /\ UNCHANGED <<pc, confVars, delta_keys, state_specs, action_specs,
                   runVars, win>>

NextItem == LoadDataset \/ GetItem

SpecItem == InitItem /\ [][NextItem]_vars

---------------------------------------------------------------------------
\* The statistics run of compute_norm_stats.py

StatKeys == <<"state", "action">>

\* KEY_MAPPINGS[repo_id][k], the names the dataset was given as state_key
\* and action_key
MappedKey(k) == IF k = "state" THEN state_key ELSE action_key

\* a loader that also yields the last, shorter batch
HasNextBatchKeepLast(next, B, N) == next < N

\* DataLoader(batch_size=B, shuffle=False, drop_last=True): only full batches
HasNextBatch(next, B, N) == next + B <= N

BatchIndices(next, B, N) == [i \in 1..Min(B, N - next) |-> next + i - 1]

\* an exception in the loop body is caught and the script goes on
AfterBatchSwallowed(ok) == IF ok THEN "update" ELSE "finalize"

\* an exception raised while a batch is fetched leaves the for loop and
\* the script
AfterBatch(ok) == IF ok THEN "update" ELSE "failed"

\* RunningStats.update: all leading axes are flattened into samples
UpdateCount(c, samples) == c + samples

Event(op, key) == [op |-> op, key |-> key]

\* next(data_loader): batch_size items through __getitem__, collated
NextBatch ==
    /\ pc = "ready"
    /\ HasNextBatch(next_idx, batch_size, NumFrames(episodes))
    /\ LET idxs == BatchIndices(next_idx, batch_size, NumFrames(episodes))
           rets == [i \in 1..Len(idxs) |->
                       GetItemCall(state_specs, action_specs, state_key,
                                   action_key, action_horizon, episodes,
                                   delta_keys, idxs[i]).ret]
           ok == \A i \in 1..Len(idxs) : rets[i].ok
       IN /\ pc' = AfterBatch(ok)
          /\ next_idx' = next_idx + Len(idxs)
          /\ IF ok
             THEN /\ batch' = [idxs |-> idxs,
                               samples |-> [k \in {"state", "action"} |->
                                   SumSeq([i \in 1..Len(idxs) |->
                                       Len(rets[i].val[MappedKey(k)].rows)])]]
                  /\ todo' = StatKeys
                  /\ log' = log
             ELSE /\ log' = Append(log, Event("raise", rets[1].key))
                  /\ UNCHANGED <<batch, todo>>
    /\ UNCHANGED <<confVars, delta_keys, state_specs, action_specs, call,
                   count, fed, win>>

\* the loader itself raises (a worker died, a frame could not be read)
BatchFails ==
    /\ pc = "ready"
    /\ HasNextBatch(next_idx, batch_size, NumFrames(episodes))
    /\ pc' = AfterBatch(FALSE)
    /\ log' = Append(log, Event("raise", "loader"))
    /\ UNCHANGED <<confVars, delta_keys, state_specs, action_specs, call,
                   next_idx, batch, todo, count, fed, win>>

\* stats[k].update(np.asarray(batch[mapped_key])), for the next k in keys
Update ==
    /\ pc = "update"
    /\ LET k == Head(todo)
       IN /\ count' = [count EXCEPT ![k] = UpdateCount(@, batch.samples[k])]
          /\ fed' = [fed EXCEPT ![k] =
                        [i \in DOMAIN @ |->
                            IF \E b \in 1..Len(batch.idxs) : batch.idxs[b] = i
                            THEN @[i] + 1 ELSE @[i]]]
          /\ log' = Append(log, Event("update", k))
    /\ todo' = Tail(todo)
    /\ pc' = IF Tail(todo) = <<>> THEN "ready" ELSE "update"
    /\ UNCHANGED <<confVars, delta_keys, state_specs, action_specs, call,
                   next_idx, batch, win>>

\* the loader is exhausted
EndLoop ==
    /\ pc = "ready"
    /\ ~HasNextBatch(next_idx, batch_size, NumFrames(episodes))
    /\ pc' = "finalize"
    /\ UNCHANGED <<confVars, delta_keys, state_specs, action_specs, call,
                   runVars, win>>

\* norm_stats = {mapped_key: stats[k].get_statistics() for k in keys}
Finalize ==
    /\ pc = "finalize"
    /\ log' = log \o [i \in 1..Len(StatKeys) |-> Event("finalize", StatKeys[i])]
    /\ pc' = "save"
    /\ UNCHANGED <<confVars, delta_keys, state_specs, action_specs, call,
                   next_idx, batch, todo, count, fed, win>>

\* get_statistics raises (an accumulator that cannot be finalized)
FinalizeFails ==
    /\ pc = "finalize"
    /\ log' = Append(log, Event("raise", "get_statistics"))
    /\ pc' = "failed"
    /\ UNCHANGED <<confVars, delta_keys, state_specs, action_specs, call,
                   next_idx, batch, todo, count, fed, win>>

\* normalize.save(out_dir, norm_stats): one record per key of norm_stats
Save ==
    /\ pc = "save"
    /\ log' = log \o (IF state_key = action_key
                      THEN << Event("save", state_key) >>
                      ELSE << Event("save", state_key), Event("save", action_key) >>)
    /\ pc' = "done"
    /\ UNCHANGED <<confVars, delta_keys, state_specs, action_specs, call,
                   next_idx, batch, todo, count, fed, win>>

RunModalities ==
    {[state |-> PlainState, action |-> PlainAction],
     [state |-> << Cfg("obs.pos", 1, -1) >>, action |-> << Cfg("act.arm", 0, 2) >>],
     [state |-> << Cfg("obs.pos", 0, 3), Cfg("", 0, -1) >>, action |-> PlainAction],
     [state |-> PlainState, action |-> << CfgKeyOnly("act.none") >>]}

RunKeys == {<<"state", "action">>, <<"obs.pos", "action">>, <<"state", "state">>}

Init ==
    /\ modality \in RunModalities
    /\ \E ks \in RunKeys : state_key = ks[1] /\ action_key = ks[2]
    /\ action_horizon \in 1..MaxH
    /\ episodes \in Tables
    /\ use_delta = TRUE
    /\ batch_size \in 1..MaxBatch
    /\ NotLoaded
    /\ IdleRun
    /\ IdleWin

Next ==
    \/ LoadDataset
    \/ NextBatch
    \/ BatchFails
    \/ Update
    \/ EndLoop
    \/ Finalize
    \/ FinalizeFails
    \/ Save

Spec == Init /\ [][Next]_vars

---------------------------------------------------------------------------
\* The window alone, for any frame index and any episode

InitWindow ==
    /\ pc = "window"
    /\ \E f \in 0..MaxIndex, t \in 0..MaxIndex, i \in -1..(MaxIndex + 1),
          h \in 1..MaxH :
          /\ f < t
          /\ win = [from |-> f, to |-> t, idx |-> i, H |-> h, indices |-> <<>>]
    /\ modality = [state |-> PlainState, action |-> PlainAction]
    /\ state_key = "state" /\ action_key = "action"
    /\ action_horizon = 1
    /\ episodes = OneTable
    /\ use_delta = FALSE
    /\ batch_size = 1
    /\ delta_keys = {}
    /\ state_specs = <<>>
    /\ action_specs = <<>>
    /\ call = NoCall
    /\ IdleRun

ComputeWindow ==
    /\ pc = "window"
    /\ win' = [win EXCEPT !.indices = ClampedIndices(win.idx, win.H, win.from, win.to)]
    /\ pc' = "windowed"
    /\ UNCHANGED <<confVars, delta_keys, state_specs, action_specs, call, runVars>>

NextWindow == ComputeWindow

SpecWindow == InitWindow /\ [][NextWindow]_vars

---------------------------------------------------------------------------
\* What a slice is expected to hold, stated on positions

\* the 0-based positions x[start:] (end = -1) or x[start:end] selects on an
\* axis of length D
SlicePositions(D, start, end) ==
    LET lo == IF start < 0 THEN start + D ELSE start
        hi == IF end = -1 THEN D ELSE IF end < 0 THEN end + D ELSE end
    IN {p \in 0..(D - 1) : lo <= p /\ p < hi}

SliceLen(D, start, end) == Cardinality(SlicePositions(D, start, end))

\* the j-th selected element of row (j from 1)
SliceElem(row, start, end, j) ==
    LET ps == SlicePositions(Len(row), start, end)
    IN row[1 + CHOOSE p \in ps : Cardinality({q \in ps : q < p}) = j - 1]

SpecLen(sp) == SliceLen(ColDim(sp.original_key), sp.start, sp.end)

\* the summed slice lengths of the first n specs
RECURSIVE Offset(_, _)
Offset(specs, n) == IF n = 0 THEN 0 ELSE Offset(specs, n - 1) + SpecLen(specs[n])

---------------------------------------------------------------------------
\* C1: whatever the frame index and the horizon, every index of the window
\* lies in [ep.start, ep.end - 1], the episode of the item.
C1_WindowWithinEpisode ==
    pc = "windowed" =>
        /\ Len(win.indices) = win.H
        /\ \A i \in 1..win.H :
              win.from <= win.indices[i] /\ win.indices[i] <= win.to - 1

C1_Witness ==
    /\ pc = "windowed"
    /\ win.H >= 2
    /\ win.idx + win.H - 1 >= win.to
    /\ win.from > 0

\* C5: from the last valid frame of the episode on (idx >= ep.end - 1), all
\* H indices of the window equal ep.end - 1; and any window is
\* non-decreasing and constant once it has reached ep.end - 1.
C5_WindowSaturates ==
    pc = "windowed" =>
        /\ win.idx >= win.to - 1 =>
              \A i \in 1..Len(win.indices) : win.indices[i] = win.to - 1
        /\ \A i, j \in 1..Len(win.indices) :
              i <= j =>
                 /\ win.indices[i] <= win.indices[j]
                 /\ win.indices[i] = win.to - 1 => win.indices[j] = win.to - 1

C5_Witness ==
    /\ pc = "windowed"
    /\ win.idx >= win.to - 1
    /\ Len(win.indices) >= 2
    /\ win.to - 1 > win.from

---------------------------------------------------------------------------
\* The parts of the last __getitem__ call the claims speak about

StateReached == call.made /\ call.super.ok

ActionReached == call.made /\ call.state.ok

CallEpisode == episodes[EpisodeOf(episodes, call.idx)]

Overrun == call.idx + action_horizon - 1 >= CallEpisode.to

StateKeysPresent ==
    \A k \in 1..Len(state_specs) :
        state_specs[k].original_key \in DOMAIN call.super.val

ActionKeysAvailable ==
    \A k \in 1..Len(action_specs) :
        \/ UsesFastPath(call.item1, action_specs[k].original_key)
        \/ action_specs[k].original_key \in Columns

ActionShapeOk ==
    /\ call.action.ok
    /\ call.action.val.ndim = 2
    /\ Len(call.action.val.rows) = action_horizon
    /\ \A r \in 1..Len(call.action.val.rows) :
          Len(call.action.val.rows[r]) = Offset(action_specs, Len(action_specs))

StateLayoutOk ==
    /\ call.state.ok
    /\ call.state.val.ndim = 1
    /\ Len(call.state.val.rows) = 1
    /\ LET row == call.state.val.rows[1]
       IN /\ Len(row) = Offset(state_specs, Len(state_specs))
          /\ \A k \in 1..Len(state_specs) :
                \A j \in 1..SpecLen(state_specs[k]) :
                    row[Offset(state_specs, k - 1) + j]
                      = SliceElem(call.super.val[state_specs[k].original_key].rows[1],
                                  state_specs[k].start, state_specs[k].end, j)
    /\ Len(state_specs) = 1 =>
          call.state.val = _slice_last_dim(
              call.super.val[state_specs[1].original_key],
              state_specs[1].start, state_specs[1].end)

ValidSpec(sp) ==
    /\ sp.original_key # ""
    /\ sp.start >= 0
    /\ sp.end = -1 \/ sp.end > sp.start

\* C6: no field spec with an empty key, a negative start or an end that is
\* neither -1 nor greater than start is ever stored in state_specs or
\* action_specs: the dataset is not built from such a descriptor.
C6_OnlyValidSpecsStored ==
    pc = "ready" =>
        /\ \A k \in 1..Len(state_specs) : ValidSpec(state_specs[k])
        /\ \A k \in 1..Len(action_specs) : ValidSpec(action_specs[k])

\* C7: a state spec whose column is not in the item makes _compose_state
\* raise the KeyError of the first such column; an action spec whose column
\* is in neither the item nor the frame store makes _compose_action raise
\* the KeyError of such a column; either way __getitem__ raises the same
\* error and returns no item.
C7_MissingFieldRaises ==
    /\ (StateReached /\ ~StateKeysPresent) =>
          /\ call.state = Raise("KeyError",
                                state_specs[FirstMissing(state_specs,
                                    DOMAIN call.super.val)].original_key,
                                NoTensor)
          /\ call.ret = Raise("KeyError", call.state.key, NoItem)
    /\ (ActionReached /\ \E k \in 1..Len(action_specs) :
                            action_specs[k].original_key \notin DOMAIN call.item1) =>
          /\ ~call.action.ok
          /\ call.action.err = "KeyError"
          /\ \E k \in 1..Len(action_specs) :
                /\ action_specs[k].original_key \notin DOMAIN call.item1
                /\ call.action.key = action_specs[k].original_key
          /\ call.ret = Raise("KeyError", call.action.key, NoItem)
    /\ (call.made /\ (~call.state.ok \/ ~call.action.ok)) => ~call.ret.ok

C7_Witness ==
    /\ ActionReached
    /\ Len(action_specs) = 2
    /\ action_specs[1].original_key = "act.arm"
    /\ action_specs[2].original_key = "act.none"
    /\ call.ret = Raise("KeyError", "act.none", NoItem)

\* C8: the returned record holds every key of the underlying item with its
\* value unchanged, and the two unified keys with the composed state and
\* the composed action, whatever state_key and action_key are (taken here
\* for two different names).
C8_ItemKeysPreserved ==
    (call.made /\ call.ret.ok /\ state_key # action_key) =>
        /\ \A k \in DOMAIN call.super.val :
              k \in DOMAIN call.ret.val /\ call.ret.val[k] = call.super.val[k]
        /\ state_key \in DOMAIN call.ret.val
        /\ action_key \in DOMAIN call.ret.val
        /\ call.ret.val[state_key] = call.state.val
        /\ call.ret.val[action_key] = call.action.val

---------------------------------------------------------------------------
\* The statistics run

Fed == batch_size * (NumFrames(episodes) \div batch_size)

Finalized == pc \in {"save", "done"}

\* C9 (as stated): whatever the batch size, the finalized count of the state
\* accumulator is the number N of frames and that of the action accumulator
\* is N * H: every item was fed to update exactly once (taken here for runs
\* that fed at least one batch, under two different key names).
C9_CountIsDatasetSize ==
    (Finalized /\ state_key # action_key /\ next_idx > 0) =>
        /\ count["state"] = NumFrames(episodes)
        /\ count["action"] = NumFrames(episodes) * action_horizon
        /\ \A i \in 0..(NumFrames(episodes) - 1) :
              fed["state"][i] = 1 /\ fed["action"][i] = 1

\* C9 (amended): the counts are those of the full batches only. With
\* B = batch_size, the first B * (N div B) items are fed exactly once to
\* each accumulator and the remaining N mod B items never; the action count
\* is B * (N div B) * H and, with distinct state and action keys, the state
\* count is B * (N div B).
C9_CountIsFullBatches ==
    Finalized =>
        /\ count["action"] = Fed * action_horizon
        /\ state_key # action_key => count["state"] = Fed
        /\ \A i \in 0..(NumFrames(episodes) - 1) :
              \A k \in {"state", "action"} :
                  fed[k][i] = IF i < Fed THEN 1 ELSE 0

C9_Witness ==
    /\ pc = "done"
    /\ batch_size = 2
    /\ NumFrames(episodes) = 3
    /\ action_horizon = 2
    /\ count["state"] = 2
    /\ count["action"] = 4

Ops(op) == {i \in 1..Len(log) : log[i].op = op}

\* C10: save is called at most once per key, after the last update and
\* after each accumulator was finalized once; nothing is updated or
\* finalized after it, every fetched batch was fed to both accumulators
\* before it, and a run in which a batch failed never saves.
C10_SaveOnceAtTheEnd ==
    /\ \A i, j \in Ops("save") : log[i].key = log[j].key => i = j
    /\ \A i \in Ops("save") :
          /\ \A j \in Ops("update") \cup Ops("finalize") : j < i
          /\ \A k \in {"state", "action"} :
                Cardinality({j \in Ops("finalize") : log[j].key = k}) = 1
          /\ todo = <<>>
          /\ ~HasNextBatch(next_idx, batch_size, NumFrames(episodes))
          /\ \A k \in {"state", "action"} :
                Cardinality({j \in Ops("update") : log[j].key = k}) * batch_size
                    = next_idx
    /\ Ops("raise") # {} => Ops("save") = {}
    /\ pc = "failed" => Ops("save") = {}

C10_Witness ==
    /\ pc = "done"
    /\ Cardinality(Ops("save")) = 2
    /\ Cardinality(Ops("update")) = 4

\* a run that failed after some batches had been fed
C10_FailedWitness ==
    /\ pc = "failed"
    /\ Ops("update") # {}

====
